---- MODULE Spec2Model ----
(***************************************************************************)
(* A model of the Go binding of libyara in yara.go: the Compiler session,  *)
(* the Rules value (load, save, scan, destroy), the status translation and *)
(* the scan callback protocol.  The native engine behind the cgo calls and *)
(* the C trampoline "callback" are not part of yara.go; they are modelled  *)
(* from the boundary contract of the specification (sections 4.3 and 6).   *)
(***************************************************************************)
EXTENDS Integers, Sequences, FiniteSets, TLC

VARIABLES
    runtime,    \* "Initialized" | "Finalized" | "Crashed" (the process-wide engine)
    compilers,  \* native YR_COMPILER objects, by handle
    rulesets,   \* native YR_RULES objects, by handle
    fs,         \* the file system, by C path
    last,       \* the last completed binding call: arguments, native result, Go result
    thr,        \* concurrent scans: the position of every scanning thread
    fns,        \* the Go callback (its behaviour) held by every scanning thread
    received    \* the match records every Go callback has been called with

vars == <<runtime, compilers, rulesets, fs, last, thr, fns, received>>

----------------------------------------------------------------------------
\* Bounds of the model.

MaxCode == 2        \* native status codes range over 0..MaxCode
MaxRules == 2       \* rules held by one compiler session
MaxCompilers == 1   \* compiler handles ever created
MaxRuleSets == 2    \* rule set handles ever created
MaxBufLen == 2      \* length of a scanned buffer
MaxReleases == 2    \* Destroy calls on one handle
NThreads == 2       \* threads scanning concurrently

----------------------------------------------------------------------------
\* Program constants.

ERROR_SUCCESS == 0
Continue == 0
Abort == 1
Fail == 2

NUL == 0            \* the byte that ends a C string

\* A nil C pointer argument; no C string contains NUL, so <<NUL>> is none.
NULL == <<NUL>>

----------------------------------------------------------------------------
\* Go values.

\* The nil error.
Nil == [msg |-> "nil", code |-> 0, arg |-> <<>>]

\* Error(code), whose Error() is "libyara: %d".
Error(code) == [msg |-> "libyara: %d", code |-> code, arg |-> <<>>]

\* fmt.Errorf(format, arg).
Errorf(format, arg) == [msg |-> format, code |-> 0, arg |-> arg]

\* A mutant of ErrorOf: Error(code) is returned whatever the code.
ErrorOfAlways(code) == Error(code)

\* A mutant of ErrorOf: the status is swallowed.
ErrorOfSwallowed(code) == Nil

\* A mutant of ErrorOf: the success test is inverted.
ErrorOfInverted(code) == IF code = ERROR_SUCCESS THEN Error(code) ELSE Nil

\* A mutant of ErrorOf: the code is dropped.
ErrorOfDropped(code) == IF code # ERROR_SUCCESS THEN Error(1) ELSE Nil

\* if code != C.ERROR_SUCCESS { return Error(code) }; return nil
ErrorOf(code) == IF code # ERROR_SUCCESS THEN Error(code) ELSE Nil

\* The index of the first NUL of s, or Len(s) + 1.
FirstNUL(s) ==
    IF \E i \in 1..Len(s) : s[i] = NUL
    THEN CHOOSE i \in 1..Len(s) : s[i] = NUL /\ \A j \in 1..(i - 1) : s[j] # NUL
    ELSE Len(s) + 1

\* C.CString(s) as the C side reads it: the bytes before the first NUL.
CString(s) == SubSeq(s, 1, FirstNUL(s) - 1)

\* NewRule(): an empty match record with an allocated Metadata map.
NewRule == [Identifier |-> "", Tags |-> <<>>, Metadata |-> {}]

----------------------------------------------------------------------------
\* The native engine (modelled from the specification).

\* The name of the namespace the engine uses for a nil namespace argument.
DefaultNs == <<3>>

\* The rule declarations a rule text can hold, by token.
Decls ==
    [t \in {1, 2} |->
        IF t = 1
        THEN [id |-> "R", tags |-> <<"t">>, meta |-> {<<"k", "v">>}, pat |-> 1]
        ELSE [id |-> "S", tags |-> <<>>, meta |-> {}, pat |-> 2]]

\* A token that is no declaration: a syntax error.
BadTok == 3

CompiledRule(ns, t) ==
    [ns |-> ns, id |-> Decls[t].id, tags |-> Decls[t].tags,
     meta |-> Decls[t].meta, pat |-> Decls[t].pat]

HasRule(rules, ns, id) ==
    \E i \in 1..Len(rules) : rules[i].ns = ns /\ rules[i].id = id

\* The engine compiles the tokens one after the other into the session: a
\* declaration whose identifier is new in the namespace is added, anything else
\* counts one error.
RECURSIVE EngineCompile(_, _, _, _)
EngineCompile(rules, ns, toks, errors) ==
    IF toks = <<>> THEN [rules |-> rules, errors |-> errors]
    ELSE LET t == Head(toks) IN
         IF t \in DOMAIN Decls /\ ~HasRule(rules, ns, Decls[t].id)
         THEN EngineCompile(Append(rules, CompiledRule(ns, t)), ns, Tail(toks), errors)
         ELSE EngineCompile(rules, ns, Tail(toks), errors + 1)

EngineNs(nsArg) == IF nsArg = NULL THEN DefaultNs ELSE nsArg

\* compiler_add_string(handle, rule_text, namespace) -> error_count
yr_compiler_add_string(rules, text, nsArg) ==
    EngineCompile(rules, EngineNs(nsArg), text, 0)

\* A file: what it holds as rule text, as data bytes and as a saved rule set.
NoFile == [kind |-> "none", ro |-> FALSE, toks |-> <<>>, bytes |-> <<>>, rules |-> <<>>]
TextFile(toks) == [kind |-> "text", ro |-> TRUE, toks |-> toks, bytes |-> <<3>>, rules |-> <<>>]
DataFile(bytes) == [kind |-> "data", ro |-> TRUE, toks |-> <<BadTok>>, bytes |-> bytes, rules |-> <<>>]
ArtFile(rules) == [kind |-> "art", ro |-> FALSE, toks |-> <<BadTok>>, bytes |-> <<3, 3>>, rules |-> rules]

FileAt(files, cpath) == IF cpath \in DOMAIN files THEN files[cpath] ELSE NoFile

\* fopen(cpath, "r"): nil when there is no such file.
fopen(files, cpath) == FileAt(files, cpath).kind # "none"

\* compiler_add_file(handle, file_descriptor, namespace, source_path) -> error_count
yr_compiler_add_file(rules, file, nsArg) ==
    EngineCompile(rules, EngineNs(nsArg), file.toks, 0)

\* A rule's condition: the buffer contains the rule's pattern byte.
Matches(rule, bytes) == \E k \in 1..Len(bytes) : bytes[k] = rule.pat

----------------------------------------------------------------------------
\* The record of a binding call.

NoPol == [at |-> 0, st |-> Continue]

NoLast ==
    [op |-> "none", h |-> 0, ns |-> <<>>, path |-> <<>>, text |-> <<>>,
     buf |-> <<>>, pol |-> NoPol, called |-> FALSE, native |-> 0, err |-> Nil,
     obj |-> 0, calls |-> <<>>, panic |-> FALSE]

NoObject == [st |-> "none", rules |-> <<>>, releases |-> 0]

\* The lowest handle not yet handed out, or 0.
FreeHandle(objs) ==
    IF \E h \in DOMAIN objs : objs[h].st = "none"
    THEN CHOOSE h \in DOMAIN objs :
             objs[h].st = "none" /\ \A g \in DOMAIN objs : objs[g].st = "none" => h <= g
    ELSE 0

Codes == 0..MaxCode
Failures == 1..MaxCode

----------------------------------------------------------------------------
\* The Compiler.

\* The namespace argument AddFile passes to yr_compiler_add_file: nil.
AddFileNs(ns) == NULL

\* A mutant of AddFileOpenError: the open failure reports as a compile failure.
AddFileOpenErrorAsCompile(path) == Errorf("libyara: failed to compile %q", path)

\* fmt.Errorf("libyara: failed to open %q", path)
AddFileOpenError(path) == Errorf("libyara: failed to open %q", path)

NewCompiler ==
    /\ runtime = "Initialized"
    /\ FreeHandle(compilers) # 0
    /\ \E code \in Codes :
        LET h == FreeHandle(compilers) IN
        /\ compilers' = IF code = ERROR_SUCCESS
                        THEN [compilers EXCEPT ![h] = [st |-> "live", rules |-> <<>>, releases |-> 0]]
                        ELSE compilers
        /\ last' = [NoLast EXCEPT !.op = "NewCompiler", !.called = TRUE, !.native = code,
                                  !.err = ErrorOf(code),
                                  !.obj = IF code # ERROR_SUCCESS THEN 0 ELSE h]
    /\ UNCHANGED <<runtime, rulesets, fs, thr, fns, received>>

AddString(c, ns, rule) ==
    /\ runtime = "Initialized"
    /\ compilers[c].st = "live"
    /\ LET res == yr_compiler_add_string(compilers[c].rules, CString(rule), CString(ns)) IN
        /\ Len(res.rules) <= MaxRules
        /\ compilers' = [compilers EXCEPT ![c].rules = res.rules]
        /\ last' = [NoLast EXCEPT !.op = "AddString", !.h = c, !.ns = ns, !.text = rule,
                                  !.called = TRUE, !.native = res.errors,
                                  !.err = IF res.errors > 0
                                          THEN Errorf("libyara: failed to compile rule", <<>>)
                                          ELSE Nil]
    /\ UNCHANGED <<runtime, rulesets, fs, thr, fns, received>>

AddFile(c, ns, path) ==
    /\ runtime = "Initialized"
    /\ compilers[c].st = "live"
    /\ LET cpath == CString(path) IN
        IF ~fopen(fs, cpath)
        THEN /\ last' = [NoLast EXCEPT !.op = "AddFile", !.h = c, !.ns = ns, !.path = path,
                                       !.err = AddFileOpenError(path)]
             /\ UNCHANGED compilers
        ELSE LET res == yr_compiler_add_file(compilers[c].rules, FileAt(fs, cpath), AddFileNs(ns)) IN
             /\ Len(res.rules) <= MaxRules
             /\ compilers' = [compilers EXCEPT ![c].rules = res.rules]
             /\ last' = [NoLast EXCEPT !.op = "AddFile", !.h = c, !.ns = ns, !.path = path,
                                       !.called = TRUE, !.native = res.errors,
                                       !.err = IF res.errors > 0
                                               THEN Errorf("libyara: failed to compile %q", path)
                                               ELSE Nil]
    /\ UNCHANGED <<runtime, rulesets, fs, thr, fns, received>>

CompilerRules(c) ==
    /\ runtime = "Initialized"
    /\ compilers[c].st = "live"
    /\ FreeHandle(rulesets) # 0
    /\ \E code \in Codes :
        LET h == FreeHandle(rulesets) IN
        /\ rulesets' = IF code = ERROR_SUCCESS
                       THEN [rulesets EXCEPT ![h] = [st |-> "live", rules |-> compilers[c].rules,
                                                     releases |-> 0]]
                       ELSE rulesets
        /\ last' = [NoLast EXCEPT !.op = "Rules", !.h = c, !.called = TRUE, !.native = code,
                                  !.err = ErrorOf(code),
                                  !.obj = IF code # ERROR_SUCCESS THEN 0 ELSE h]
    /\ UNCHANGED <<runtime, compilers, fs, thr, fns, received>>

\* What a second release of a native object can do to the process.
DoubleFreeOutcomes == {"Initialized", "Crashed"}

\* Destroy passes the handle to the engine's destroy, whatever its state.
DestroyReleases(obj) == obj.releases + 1

CompilerDestroy(c) ==
    /\ runtime = "Initialized"
    /\ compilers[c].st # "none"
    /\ compilers[c].releases < MaxReleases
    /\ compilers' = [compilers EXCEPT ![c] = [st |-> "freed", rules |-> <<>>,
                                              releases |-> DestroyReleases(compilers[c])]]
    /\ runtime' \in (IF compilers[c].st = "freed" THEN DoubleFreeOutcomes ELSE {"Initialized"})
    /\ last' = [NoLast EXCEPT !.op = "CompilerDestroy", !.h = c]
    /\ UNCHANGED <<rulesets, fs, thr, fns, received>>

----------------------------------------------------------------------------
\* The scan protocol.

\* What the Go callback fn returns on its n-th invocation of a scan.
CallbackReturn(fn, n) == IF n = fn.at THEN fn.st ELSE Continue

\* The match record the trampoline builds from the engine's match event.
MatchRecord(rule) ==
    [NewRule EXCEPT !.Identifier = rule.id, !.Tags = rule.tags, !.Metadata = rule.meta]

\* One step of the engine's scan at rule i: a rule that does not match is passed
\* over; for a matching rule the callback is called and its status decides.
\* "next" is the rule to go on with, or 0 when the scan ends with "code".
ScanRule(rules, bytes, i, fn, ncalls, fc) ==
    IF i > Len(rules) THEN [call |-> FALSE, next |-> 0, code |-> ERROR_SUCCESS]
    ELSE IF ~Matches(rules[i], bytes) THEN [call |-> FALSE, next |-> i + 1, code |-> ERROR_SUCCESS]
    ELSE LET st == CallbackReturn(fn, ncalls + 1) IN
         IF st = Continue THEN [call |-> TRUE, next |-> i + 1, code |-> ERROR_SUCCESS]
         ELSE IF st = Abort THEN [call |-> TRUE, next |-> 0, code |-> ERROR_SUCCESS]
         ELSE [call |-> TRUE, next |-> 0, code |-> fc]

RECURSIVE ScanLoop(_, _, _, _, _, _)
ScanLoop(rules, bytes, i, fn, calls, fc) ==
    LET s == ScanRule(rules, bytes, i, fn, Len(calls), fc)
        cs == IF s.call THEN Append(calls, MatchRecord(rules[i])) ELSE calls
    IN  IF s.next = 0 THEN [calls |-> cs, code |-> s.code]
        ELSE ScanLoop(rules, bytes, s.next, fn, cs, fc)

\* ruleset_scan_mem: the engine's own status e, when it is a failure, ends the
\* scan before any callback; fc is the status the engine reports for a callback
\* that returned Fail.
yr_rules_scan_mem(rules, bytes, fn, e, fc) ==
    IF e # ERROR_SUCCESS THEN [calls |-> <<>>, code |-> e]
    ELSE ScanLoop(rules, bytes, 1, fn, <<>>, fc)

\* ruleset_scan_file: a path that cannot be opened is a failure before any callback.
yr_rules_scan_file(files, rules, cpath, fn, e, fc) ==
    IF ~fopen(files, cpath) THEN [calls |-> <<>>, code |-> fc]
    ELSE yr_rules_scan_mem(rules, FileAt(files, cpath).bytes, fn, e, fc)

\* A mutant of BufferView: the size passed is one short.
BufferViewShort(buffer) == SubSeq(buffer, 1, Len(buffer) - 1)

\* data := &buffer[0]; size := len(buffer): the bytes the engine is given.
BufferView(buffer) == SubSeq(buffer, 1, Len(buffer))

\* A mutant of FnToPointer: every scan passes the same registered callback.
FnToPointerShared(t) == 1

\* *(*unsafe.Pointer)(unsafe.Pointer(&fn)): the callback of the calling scan, as
\* the context pointer given to the engine.
FnToPointer(t) == t

ScanMemory(r, buffer, fn) ==
    /\ runtime = "Initialized"
    /\ rulesets[r].st = "live"
    /\ IF Len(buffer) = 0
       THEN last' = [NoLast EXCEPT !.op = "ScanMemory", !.h = r, !.buf = buffer, !.pol = fn,
                                   !.panic = TRUE]
       ELSE LET table == [x \in {1} |-> fn] IN
            \E res \in {yr_rules_scan_mem(rulesets[r].rules, BufferView(buffer),
                                          table[FnToPointer(1)], e, fc) :
                             e \in Codes, fc \in Failures} :
                last' = [NoLast EXCEPT !.op = "ScanMemory", !.h = r, !.buf = buffer, !.pol = fn,
                                       !.called = TRUE, !.native = res.code,
                                       !.err = ErrorOf(res.code), !.calls = res.calls]
    /\ UNCHANGED <<runtime, compilers, rulesets, fs, thr, fns, received>>

ScanFile(r, path, fn) ==
    /\ runtime = "Initialized"
    /\ rulesets[r].st = "live"
    /\ LET table == [x \in {1} |-> fn] IN
        \E res \in {yr_rules_scan_file(fs, rulesets[r].rules, CString(path),
                                       table[FnToPointer(1)], e, fc) :
                         e \in Codes, fc \in Failures} :
            last' = [NoLast EXCEPT !.op = "ScanFile", !.h = r, !.path = path, !.pol = fn,
                                   !.called = TRUE, !.native = res.code,
                                   !.err = ErrorOf(res.code), !.calls = res.calls]
    /\ UNCHANGED <<runtime, compilers, rulesets, fs, thr, fns, received>>

----------------------------------------------------------------------------
\* The Rules value.

\* ruleset_load(path): only a saved rule set loads.
LoadCodes(files, cpath) == IF FileAt(files, cpath).kind = "art" THEN Codes ELSE Failures

\* ruleset_save(handle, path): only a writable path is written.
SaveCodes(files, cpath) ==
    IF cpath \in DOMAIN files /\ ~files[cpath].ro THEN Codes ELSE Failures

LoadFromFile(path) ==
    /\ runtime = "Initialized"
    /\ FreeHandle(rulesets) # 0
    /\ LET cpath == CString(path)
           h == FreeHandle(rulesets)
       IN  \E code \in LoadCodes(fs, cpath) :
            /\ rulesets' = IF code = ERROR_SUCCESS
                           THEN [rulesets EXCEPT ![h] = [st |-> "live",
                                                         rules |-> FileAt(fs, cpath).rules,
                                                         releases |-> 0]]
                           ELSE rulesets
            /\ last' = [NoLast EXCEPT !.op = "LoadFromFile", !.path = path,
                                      !.called = TRUE, !.native = code,
                                      !.err = ErrorOf(code),
                                      !.obj = IF code # ERROR_SUCCESS THEN 0 ELSE h]
    /\ UNCHANGED <<runtime, compilers, fs, thr, fns, received>>

Save(r, path) ==
    /\ runtime = "Initialized"
    /\ rulesets[r].st = "live"
    /\ LET cpath == CString(path) IN
        \E code \in SaveCodes(fs, cpath) :
            /\ fs' = IF code = ERROR_SUCCESS
                     THEN [fs EXCEPT ![cpath] = ArtFile(rulesets[r].rules)]
                     ELSE fs
            /\ last' = [NoLast EXCEPT !.op = "Save", !.h = r, !.path = path,
                                      !.called = TRUE, !.native = code,
                                      !.err = ErrorOf(code)]
    /\ UNCHANGED <<runtime, compilers, rulesets, thr, fns, received>>

RulesDestroy(r) ==
    /\ runtime = "Initialized"
    /\ rulesets[r].st # "none"
    /\ rulesets[r].releases < MaxReleases
    /\ rulesets' = [rulesets EXCEPT ![r] = [st |-> "freed", rules |-> <<>>,
                                            releases |-> DestroyReleases(rulesets[r])]]
    /\ runtime' \in (IF rulesets[r].st = "freed" THEN DoubleFreeOutcomes ELSE {"Initialized"})
    /\ last' = [NoLast EXCEPT !.op = "RulesDestroy", !.h = r]
    /\ UNCHANGED <<compilers, fs, thr, fns, received>>

Finalize ==
    /\ runtime = "Initialized"
    /\ \E code \in Codes :
        /\ runtime' = IF code = ERROR_SUCCESS THEN "Finalized" ELSE runtime
        /\ last' = [NoLast EXCEPT !.op = "Finalize", !.called = TRUE, !.native = code,
                                  !.err = ErrorOf(code)]
    /\ UNCHANGED <<compilers, rulesets, fs, thr, fns, received>>

----------------------------------------------------------------------------
\* Concurrent scans: the same scan, one engine step at a time, per thread.

Threads == 1..NThreads

IdleThread ==
    [pc |-> "idle", h |-> 0, rules0 |-> <<>>, bytes |-> <<>>, ctx |-> 0, idx |-> 0,
     entered |-> FALSE, code |-> 0, err |-> Nil]

\* The thread enters the engine's scan with its callback as the context pointer;
\* e is the engine's own status on entry.
ThreadEnter(t, r, bytes, fn, e) ==
    /\ fns' = [fns EXCEPT ![t] = fn]
    /\ received' = [received EXCEPT ![t] = <<>>]
    /\ thr' = [thr EXCEPT ![t] =
                 [pc |-> IF e = ERROR_SUCCESS THEN "scan" ELSE "ret",
                  h |-> r, rules0 |-> rulesets[r].rules, bytes |-> bytes,
                  ctx |-> FnToPointer(t), idx |-> 1, entered |-> e = ERROR_SUCCESS,
                  code |-> e, err |-> Nil]]

ThreadScanMemory(t, r, buffer, fn) ==
    /\ runtime = "Initialized"
    /\ thr[t].pc = "idle"
    /\ rulesets[r].st = "live"
    /\ IF Len(buffer) = 0
       THEN /\ thr' = [thr EXCEPT ![t].pc = "panic", ![t].h = r]
            /\ UNCHANGED <<fns, received>>
       ELSE \E e \in Codes : ThreadEnter(t, r, BufferView(buffer), fn, e)
    /\ UNCHANGED <<runtime, compilers, rulesets, fs, last>>

ThreadScanFile(t, r, path, fn) ==
    /\ runtime = "Initialized"
    /\ thr[t].pc = "idle"
    /\ rulesets[r].st = "live"
    /\ \E e \in (IF fopen(fs, CString(path)) THEN Codes ELSE Failures) :
        ThreadEnter(t, r, FileAt(fs, CString(path)).bytes, fn, e)
    /\ UNCHANGED <<runtime, compilers, rulesets, fs, last>>

\* The engine evaluates the next rule of thread t's scan; on a match the
\* trampoline calls the Go callback the context pointer names.
ThreadStep(t) ==
    /\ thr[t].pc = "scan"
    /\ \E fc \in Failures :
       LET ctx == thr[t].ctx
           i == thr[t].idx
           rules == rulesets[thr[t].h].rules
           s == ScanRule(rules, thr[t].bytes, i, fns[ctx], Len(received[ctx]), fc)
       IN  /\ received' = IF s.call
                          THEN [received EXCEPT ![ctx] = Append(@, MatchRecord(rules[i]))]
                          ELSE received
           /\ thr' = IF s.next = 0
                     THEN [thr EXCEPT ![t].pc = "ret", ![t].code = s.code]
                     ELSE [thr EXCEPT ![t].idx = s.next]
    /\ UNCHANGED <<runtime, compilers, rulesets, fs, last, fns>>

\* The engine returns; the binding translates the status.
ThreadReturn(t) ==
    /\ thr[t].pc = "ret"
    /\ thr' = [thr EXCEPT ![t].pc = "done", ![t].err = ErrorOf(thr[t].code)]
    /\ UNCHANGED <<runtime, compilers, rulesets, fs, last, fns, received>>

----------------------------------------------------------------------------
\* Inputs.

\* Go strings; byte 0 is NUL.
Namespaces == {<<1>>, <<2>>, <<1, 0, 2>>}
Texts == {<<1>>, <<2>>, <<1, 2>>, <<3>>, <<1, 0, 3>>}
Paths == {<<1>>, <<2>>, <<3>>, <<3, 0, 1>>, <<>>}

Bytes == 1..3
Buffers == UNION {[1..n -> Bytes] : n \in 0..MaxBufLen}

\* Callbacks: always Continue, or Abort / Fail at the k-th invocation.
Callbacks == {NoPol} \cup {[at |-> k, st |-> s] : k \in 1..MaxRules, s \in {Abort, Fail}}

\* The smaller inputs of the specifications that create and release objects.
FewNamespaces == {<<1>>}
FewTexts == {<<1, 2>>}
FewBuffers == {<<>>, <<1, 2>>}
FewCallbacks == {NoPol, [at |-> 1, st |-> Abort], [at |-> 1, st |-> Fail]}
FewPaths == {<<2>>, <<3>>}

\* The inputs of the concurrent scans.
ConcBuffers == {<<>>, <<2>>}
ConcPaths == {<<2>>, <<3>>}

\* The rules any session can hold, and the rule sets compiled from them.
RuleUniverse == {CompiledRule(ns, t) : ns \in {<<1>>, <<2>>, DefaultNs}, t \in DOMAIN Decls}
AllRuleSets ==
    {rs \in UNION {[1..n -> RuleUniverse] : n \in 0..MaxRules} :
        \A i, j \in 1..Len(rs) : (rs[i].ns = rs[j].ns /\ rs[i].id = rs[j].id) => i = j}

\* The files at start: a rule text, a data file, and a free writable path.
InitFs ==
    [p \in {<<1>>, <<2>>, <<3>>} |->
        IF p = <<1>> THEN TextFile(<<1>>)
        ELSE IF p = <<2>> THEN DataFile(<<1, 2>>)
        ELSE NoFile]

----------------------------------------------------------------------------
\* Specifications.

InitCommon ==
    /\ runtime = "Initialized"
    /\ fs = InitFs
    /\ last = NoLast
    /\ thr = [t \in Threads |-> IdleThread]
    /\ fns = [t \in Threads |-> NoPol]
    /\ received = [t \in Threads |-> <<>>]

\* After init(): the engine is initialized, nothing is created yet.
Init ==
    /\ InitCommon
    /\ compilers = [h \in 1..MaxCompilers |-> NoObject]
    /\ rulesets = [h \in 1..MaxRuleSets |-> NoObject]

\* After NewCompiler() succeeded.
InitCompile ==
    /\ InitCommon
    /\ compilers = [h \in 1..1 |-> [st |-> "live", rules |-> <<>>, releases |-> 0]]
    /\ rulesets = [h \in 1..MaxRuleSets |-> NoObject]

\* After a session compiled a rule set and Rules() returned it.
InitRules ==
    /\ InitCommon
    /\ compilers = [h \in 1..MaxCompilers |-> NoObject]
    /\ \E rs \in AllRuleSets :
        rulesets = [h \in 1..MaxRuleSets |->
                      IF h = 1 THEN [st |-> "live", rules |-> rs, releases |-> 0] ELSE NoObject]

\* After Rules() returned the rule set of a session holding two rules.
ConcRules == <<CompiledRule(<<1>>, 1), CompiledRule(<<2>>, 2)>>

InitConc ==
    /\ InitCommon
    /\ compilers = [h \in 1..MaxCompilers |-> NoObject]
    /\ rulesets = [h \in 1..1 |-> [st |-> "live", rules |-> ConcRules, releases |-> 0]]

StatusNext ==
    \/ NewCompiler
    \/ \E c \in DOMAIN compilers, ns \in FewNamespaces, rule \in FewTexts : AddString(c, ns, rule)
    \/ \E c \in DOMAIN compilers : CompilerRules(c)
    \/ \E path \in FewPaths : LoadFromFile(path)
    \/ \E r \in DOMAIN rulesets, path \in FewPaths : Save(r, path)
    \/ \E r \in DOMAIN rulesets, buffer \in FewBuffers, fn \in FewCallbacks : ScanMemory(r, buffer, fn)
    \/ \E r \in DOMAIN rulesets, path \in FewPaths, fn \in FewCallbacks : ScanFile(r, path, fn)
    \/ Finalize

Next ==
    \/ StatusNext
    \/ \E c \in DOMAIN compilers : CompilerDestroy(c)
    \/ \E r \in DOMAIN rulesets : RulesDestroy(r)

\* The whole life cycle, single-threaded.
Spec == Init /\ [][Next]_vars

\* The status-returning operations.
SpecStatus == Init /\ [][StatusNext]_vars

CompileNext ==
    \/ \E c \in DOMAIN compilers, ns \in Namespaces, rule \in Texts : AddString(c, ns, rule)
    \/ \E c \in DOMAIN compilers, ns \in Namespaces, path \in Paths : AddFile(c, ns, path)

\* One compiler session.
SpecCompile == InitCompile /\ [][CompileNext]_vars

\* A scan changes nothing but the record of the call, so every scan starts from
\* the state the first one starts from: only the first is explored.
ScanNext ==
    \/ /\ last.op = "none"
       /\ \E r \in DOMAIN rulesets, buffer \in Buffers, fn \in Callbacks : ScanMemory(r, buffer, fn)
    \/ /\ last.op = "none"
       /\ \E r \in DOMAIN rulesets, path \in Paths, fn \in Callbacks : ScanFile(r, path, fn)

\* A scan of a compiled rule set.
SpecScan == InitRules /\ [][ScanNext]_vars

StoreNext ==
    \/ \E r \in DOMAIN rulesets, path \in Paths : Save(r, path)
    \/ \E path \in Paths : LoadFromFile(path)

\* Saving and loading rule sets.
SpecStore == InitRules /\ [][StoreNext]_vars

ConcNext ==
    \/ \E t \in Threads, r \in DOMAIN rulesets, buffer \in ConcBuffers, fn \in FewCallbacks :
        ThreadScanMemory(t, r, buffer, fn)
    \/ \E t \in Threads, r \in DOMAIN rulesets, path \in ConcPaths, fn \in FewCallbacks :
        ThreadScanFile(t, r, path, fn)
    \/ \E t \in Threads : ThreadStep(t)
    \/ \E t \in Threads : ThreadReturn(t)

\* Scans of one rule set by several threads at once.
SpecConc == InitConc /\ [][ConcNext]_vars

----------------------------------------------------------------------------
\* Properties.

Range(f) == {f[i] : i \in DOMAIN f}

IsPrefix(a, b) == Len(a) <= Len(b) /\ SubSeq(b, 1, Len(a)) = a

\* The last call is a scan that reached the engine.
IsScan == last.op \in {"ScanMemory", "ScanFile"} /\ last.called

\* The input of the last scan, when it has one: the caller's buffer, or the
\* content of the file at the caller's path.
HasInput ==
    IF last.op = "ScanMemory" THEN Len(last.buf) > 0 ELSE fopen(fs, CString(last.path))

ScannedBytes ==
    IF last.op = "ScanMemory" THEN last.buf ELSE FileAt(fs, CString(last.path)).bytes

ScannedRules == rulesets[last.h].rules

\* The rules whose condition the input satisfies.
Matching(rules, bytes) == {i \in 1..Len(rules) : Matches(rules[i], bytes)}

AbortAtFirst == [at |-> 1, st |-> Abort]
FailAtFirst == [at |-> 1, st |-> Fail]

\* C1: in a scan of an input that at least two rules match, a callback that
\* returns Abort on its first invocation is invoked exactly once, and the scan
\* returns nil.
C1_AbortShortCircuits ==
    (/\ IsScan /\ HasInput
     /\ Cardinality(Matching(ScannedRules, ScannedBytes)) >= 2
     /\ last.pol = AbortAtFirst
     /\ Len(last.calls) >= 1)
    => (Len(last.calls) = 1 /\ last.err = Nil)

C1_Witness ==
    /\ IsScan /\ HasInput
    /\ Cardinality(Matching(ScannedRules, ScannedBytes)) >= 2
    /\ last.pol = AbortAtFirst
    /\ Len(last.calls) = 1
    /\ last.err = Nil

\* C2: in a scan of an input that at least two rules match, a callback that
\* returns Fail on its first invocation is invoked exactly once, and the scan
\* returns a non-nil error.
C2_FailPropagates ==
    (/\ IsScan /\ HasInput
     /\ Cardinality(Matching(ScannedRules, ScannedBytes)) >= 2
     /\ last.pol = FailAtFirst
     /\ Len(last.calls) >= 1)
    => (Len(last.calls) = 1 /\ last.err # Nil)

C2_Witness ==
    /\ IsScan /\ HasInput
    /\ Cardinality(Matching(ScannedRules, ScannedBytes)) >= 2
    /\ last.pol = FailAtFirst
    /\ Len(last.calls) = 1
    /\ last.err # Nil
    /\ last.op = "ScanFile"

\* Every match record is delivered as often as there are matching rules it
\* describes: once per matching rule, never for a rule that does not match.
OncePerMatchingRule(calls, rules, bytes) ==
    \A rec \in Range(calls) \cup {MatchRecord(rules[i]) : i \in 1..Len(rules)} :
        Cardinality({j \in 1..Len(calls) : calls[j] = rec})
            = Cardinality({i \in Matching(rules, bytes) : MatchRecord(rules[i]) = rec})

C4_AddFileUsesNamespace ==
    LET toks == FileAt(fs, CString(last.path)).toks
        ids == {Decls[toks[k]].id : k \in {k \in 1..Len(toks) : toks[k] \in DOMAIN Decls}}
        rules == compilers[last.h].rules
    IN  (last.op = "AddFile" /\ last.called /\ \A k \in 1..Len(toks) : toks[k] \in DOMAIN Decls)
        => IF last.err = Nil
           THEN \A id \in ids : HasRule(rules, CString(last.ns), id)
           ELSE \E id \in ids : HasRule(rules, CString(last.ns), id)

\* C5: the native handle of a Compiler or a Rules value is released at most
\* once, and a second Destroy is safe.
C5_DestroyOnce ==
    /\ \A c \in DOMAIN compilers : compilers[c].releases <= 1
    /\ \A r \in DOMAIN rulesets : rulesets[r].releases <= 1
    /\ runtime # "Crashed"

\* C6: ScanMemory with an empty buffer returns an error, without a panic,
\* without calling the engine's scan and without invoking the callback.
C6_EmptyBufferRejected ==
    (last.op = "ScanMemory" /\ Len(last.buf) = 0)
    => (~last.panic /\ last.err # Nil /\ ~last.called /\ last.calls = <<>>)

\* C7: when AddFile cannot open the path it returns the open error naming the
\* path, which is not the compile error, the engine's add-file is not called and
\* the session's rules are unchanged; the compile error is returned only when
\* the file was opened and the engine counted an error.
C7_OpenFailureDistinct ==
    [][last'.op = "AddFile" =>
        /\ ~fopen(fs', CString(last'.path)) =>
            /\ last'.err = Errorf("libyara: failed to open %q", last'.path)
            /\ last'.err # Errorf("libyara: failed to compile %q", last'.path)
            /\ ~last'.called
            /\ compilers' = compilers
        /\ last'.err.msg = "libyara: failed to compile %q" =>
            /\ fopen(fs', CString(last'.path))
            /\ last'.called
            /\ last'.native > 0]_vars

C7_Witness ==
    /\ last.op = "AddFile"
    /\ ~fopen(fs, CString(last.path))
    /\ last.err = Errorf("libyara: failed to open %q", last.path)
    /\ Len(compilers[last.h].rules) > 0

StatusOps ==
    {"Finalize", "NewCompiler", "Rules", "LoadFromFile", "Save", "ScanMemory", "ScanFile"}

\* C8: every status-returning operation returns nil exactly when the native
\* status is 0 and otherwise the Error of exactly that status; NewCompiler,
\* Rules and LoadFromFile return an object exactly when the error is nil.
C8_StatusTranslation ==
    (last.op \in StatusOps /\ last.called)
    => /\ last.err = Nil <=> last.native = 0
       /\ last.native # 0 => last.err = Error(last.native)
       /\ last.op \in {"NewCompiler", "Rules", "LoadFromFile"} =>
            /\ last.obj # 0 <=> last.err = Nil
            /\ last.obj # 0 =>
                IF last.op = "NewCompiler"
                THEN compilers[last.obj].st = "live"
                ELSE rulesets[last.obj].st = "live"

C8_Witness ==
    /\ last.op = "LoadFromFile" /\ last.called
    /\ last.native = 2
    /\ last.err = Error(2)
    /\ last.obj = 0

\* The match records every scan of a buffer with a rule set delivers, by buffer
\* and callback.
ScanOutcomes(rules) ==
    [b \in Buffers \ {<<>>}, fn \in Callbacks |->
        ScanLoop(rules, b, 1, fn, <<>>, MaxCode).calls]

AloneOutcomes(t) ==
    IF thr[t].entered
    THEN {ScanLoop(thr[t].rules0, thr[t].bytes, 1, fns[t], <<>>, fc) : fc \in Failures}
    ELSE {[calls |-> <<>>, code |-> thr[t].code]}

\* C10: under every interleaving of concurrent scans of one rule set, a scan
\* delivers its match records to its own callback only, ends as it would end
\* alone, and leaves the rule set unchanged.
C10_ScansIndependent ==
    \A t \in Threads :
        IF thr[t].pc \in {"idle", "panic"} THEN received[t] = <<>>
        ELSE /\ rulesets[thr[t].h].rules = thr[t].rules0
             /\ \E o \in AloneOutcomes(t) :
                 /\ IsPrefix(received[t], o.calls)
                 /\ thr[t].pc \in {"ret", "done"} =>
                     /\ received[t] = o.calls
                     /\ thr[t].code = o.code
                 /\ thr[t].pc = "done" =>
                     thr[t].err = IF o.code = ERROR_SUCCESS THEN Nil ELSE Error(o.code)

C10_Witness ==
    /\ thr[1].pc = "scan" /\ thr[2].pc = "done"
    /\ fns[1] = NoPol /\ fns[2] = AbortAtFirst
    /\ Len(received[1]) = 1 /\ Len(received[2]) = 1
    /\ thr[1].idx = 2
    /\ thr[2].err = Nil

====
